---- MODULE Spec2Model ----
(***************************************************************************)
(* A model of the brainfuck part of encoder.py: the tape machine           *)
(* (class BFHandler), the interpreter (brainfuck.decode) and the program   *)
(* synthesizer (brainfuck.encode, brainfuck.offset).                       *)
(*                                                                         *)
(* Characters are represented by their code points (ord/chr), programs by  *)
(* sequences of one-character strings.  Python list indices are 0-based;   *)
(* a Python index i of a list is element i + 1 of the TLA+ sequence.       *)
(* A Python exception is the state pc = "error" with its name in err.      *)
(***************************************************************************)
EXTENDS Integers, Sequences, FiniteSets, TLC

VARIABLES
    pc,      \* where the program is: a phase of encode or decode, "done", "error"
    err,     \* the name of the exception raised, "" when none
    op,      \* the last tape operation or instruction executed, "" when none
    steps,   \* the number of instructions / tape operations executed so far
    args,    \* the arguments of the call being modelled
    encL,    \* the locals of brainfuck.encode (of brainfuck.offset in SpecOffset)
    decL,    \* the locals of brainfuck.decode
    cells,   \* the BFHandler object: handler (the tape), pointer, brackets
    inp,     \* the characters the user will type at the `,` prompts
    nin      \* how many of them have been read

vars == <<pc, err, op, steps, args, encL, decL, cells, inp, nin>>

----------------------------------------------------------------------------
(* Bounds of the model *)

MaxLine == 3      \* longest raw program text of SpecDecode
MaxInp == 2       \* length of the (cyclically read) stream of typed characters
MaxSteps == 600   \* instructions executed before a run is cut off
MaxText == 2      \* longest text given to encode
MaxN == 16        \* counted loop: most initial increments
MaxM == 16        \* counted loop: most increments in the body
MaxK == 1         \* counted loop: most trailing increments
MaxOps == 6       \* SpecTape: most tape operations called
MaxCode == 24     \* SpecSingle: largest bucket size, and largest code but 65, 255
MaxBucket == 5    \* SpecOffset: largest bucket index in a set of used buckets

(* Inputs the specifications draw from *)

Junk == "x"                               \* a character outside _allowed
InputCodes == {33, 955}                   \* single characters typed at a `,`
TextCodes == {9, 32, 65, 90, 126}         \* character codes of the texts encoded
BucketSizes == {-1, 0, 1, 5, 10, 50, 65, 255} \* the maxlen arguments tried
PrintableBuckets == {1, 5, 10, 50, 255}

----------------------------------------------------------------------------
(* Helpers *)

None == -1        \* Python's None as a dict value or a pointer (positions are >= 0)

Rep(c, n) == [i \in 1..n |-> c]

Range(s) == {s[i] : i \in 1..Len(s)}

RECURSIVE SeqsUpTo(_, _)
SeqsUpTo(S, n) ==
    IF n = 0 THEN {<<>>}
    ELSE LET shorter == SeqsUpTo(S, n - 1)
         IN  shorter \cup {Append(s, c) : s \in {t \in shorter : Len(t) = n - 1}, c \in S}

Max(S) == CHOOSE x \in S : \A y \in S : y <= x

\* sorted(d)[-1] of a non-empty dict d: its largest key
LargestKey(d) == Max(DOMAIN d)

\* a // b for a >= 0, b > 0
FloorDiv(a, b) == a \div b

\* the keys of a dict whose keys are the members of S, smallest first
KeysOf(S) ==
    [i \in 1..Cardinality(S) |-> CHOOSE x \in S : Cardinality({y \in S : y < x}) = i - 1]

----------------------------------------------------------------------------
(* class BFHandler.  c is the object: [handler, pointer, brackets].         *)

allowed == {"+", "-", ".", ",", "[", "]", "<", ">"}

NewBFHandler == [handler |-> <<0>>, pointer |-> 0, brackets |-> <<>>]

\* Python's list indexing handler[p]: a negative p counts from the end
InRange(h, p) == -Len(h) <= p /\ p < Len(h)

Idx(h, p) == IF p >= 0 THEN p + 1 ELSE Len(h) + p + 1

open_bracket(c, pointer) ==
    [c EXCEPT !.brackets = (pointer :> None) @@ c.brackets]

\* raises IndexError when no bracket was opened (sorted({})[-1])
close_bracket_ok(c) == DOMAIN c.brackets # {}

close_bracket(c, pointer) ==
    [c EXCEPT !.brackets[LargestKey(c.brackets)] = pointer]

\* move_right that also clears the cell it moves to
move_right_clear(c) ==
    LET p == c.pointer + 1
        h == IF Len(c.handler) <= p THEN Append(c.handler, 0) ELSE c.handler
    IN  [c EXCEPT !.pointer = p,
                  !.handler = IF InRange(h, p) THEN [h EXCEPT ![Idx(h, p)] = 0] ELSE h]

\* move_right with the length test off by one: the tape grows one move late
move_right_late(c) ==
    LET p == c.pointer + 1
    IN  [c EXCEPT !.pointer = p,
                  !.handler = IF Len(c.handler) < p THEN Append(c.handler, 0)
                              ELSE c.handler]

move_right(c) ==
    LET p == c.pointer + 1
    IN  [c EXCEPT !.pointer = p,
                  !.handler = IF Len(c.handler) <= p THEN Append(c.handler, 0)
                              ELSE c.handler]

move_left(c) == [c EXCEPT !.pointer = c.pointer - 1]

\* inc with the wrap test off by one: 256 is kept
inc_late(c) ==
    LET i == Idx(c.handler, c.pointer)
        v == c.handler[i] + 1
    IN  [c EXCEPT !.handler[i] = IF v = 257 THEN 0 ELSE v]

inc(c) ==
    LET i == Idx(c.handler, c.pointer)
        v == c.handler[i] + 1
    IN  [c EXCEPT !.handler[i] = IF v = 256 THEN 0 ELSE v]

\* dec with the wrap test off by one: a cell never holds 0 after a dec
dec_early(c) ==
    LET i == Idx(c.handler, c.pointer)
        v == c.handler[i] - 1
    IN  [c EXCEPT !.handler[i] = IF v = 0 THEN 255 ELSE v]

dec(c) ==
    LET i == Idx(c.handler, c.pointer)
        v == c.handler[i] - 1
    IN  [c EXCEPT !.handler[i] = IF v = -1 THEN 255 ELSE v]

get_current(c) == c.handler[Idx(c.handler, c.pointer)]

\* chr(n) raises ValueError outside range(0x110000)
chr_ok(n) == 0 <= n /\ n < 1114112

get_value(c) == get_current(c)

set_value(c, ch) == [c EXCEPT !.handler[Idx(c.handler, c.pointer)] = ch]

\* the bracket map handed back without being reversed
reverse_brackets_not(c) == c.brackets

\* {v: k for k, v in brackets.items()}: for equal values the last key wins
reverse_brackets(c) ==
    LET b == c.brackets
        vals == {b[k] : k \in DOMAIN b}
    IN  [v \in vals |-> Max({k \in DOMAIN b : b[k] = v})]

----------------------------------------------------------------------------
(* brainfuck.decode.  m is one run of it:                                   *)
(*   [pc, err, op, steps, nin, decL |-> [line, new, pointer, chars], cells]  *)

\* line 142: char in cls._allowed
IsAllowed(char) == char \in allowed

\* lines 140-143: keep the characters of line that are in _allowed, in order
Filter(line) == SelectSeq(line, IsAllowed)

NoDec == [line |-> <<>>, new |-> <<>>, pointer |-> 0, chars |-> <<>>]

Raise(m, name) == [m EXCEPT !.pc = "error", !.err = name]

\* the call decode(line) at its entry
DecodeCall(line) ==
    [pc |-> "decode", err |-> "", op |-> "", steps |-> 0, nin |-> 0,
     decL |-> [NoDec EXCEPT !.line = line], cells |-> NewBFHandler]

\* lines 140-147
DecodeFilter(m) ==
    LET new == Filter(m.decL.line)
    IN  IF new = <<>>
        THEN [m EXCEPT !.pc = "done", !.decL.new = new, !.decL.chars = <<>>]
        ELSE [m EXCEPT !.pc = "scan", !.decL.new = new, !.decL.pointer = 0,
                       !.cells = NewBFHandler]

\* the pre-scan walking over the raw text instead of the filtered one
ScanTextRaw(d) == d.line

\* line 148: the text the bracket pre-scan walks over
ScanText(d) == d.new

\* lines 149-152: the loop body at position pointer; r is [cells, ok], ok is
\* FALSE once close_bracket has raised IndexError
ScanAt(r, text, pointer) ==
    LET char == text[pointer + 1]
    IN  IF ~r.ok THEN r
        ELSE IF char = "[" THEN [r EXCEPT !.cells = open_bracket(r.cells, pointer)]
        ELSE IF char = "]"
             THEN IF close_bracket_ok(r.cells)
                  THEN [r EXCEPT !.cells = close_bracket(r.cells, pointer)]
                  ELSE [r EXCEPT !.ok = FALSE]
             ELSE r

\* lines 148-153 for the positions lo .. hi - 1, in order (the range is split
\* in halves to keep the recursion shallow)
RECURSIVE ScanFrom(_, _, _, _)
ScanFrom(r, text, lo, hi) ==
    IF lo >= hi \/ ~r.ok THEN r
    ELSE IF hi - lo = 1 THEN ScanAt(r, text, lo)
    ELSE LET mid == lo + ((hi - lo) \div 2)
             first == ScanFrom(r, text, lo, mid)
         IN  ScanFrom(first, text, mid, hi)

\* lines 148-155
DecodeScan(m) ==
    LET text == ScanText(m.decL)
        r == ScanFrom([cells |-> m.cells, ok |-> TRUE], text, 0, Len(text))
    IN  IF r.ok
        THEN [m EXCEPT !.pc = "exec", !.cells = r.cells, !.decL.pointer = 0,
                       !.decL.chars = <<>>]
        ELSE Raise([m EXCEPT !.cells = r.cells], "IndexError")

\* the instruction about to be executed (line 157)
CurChar(m) == m.decL.new[m.decL.pointer + 1]

\* the k-th character typed (k from 0): the stream is read cyclically
Typed(stream, k) == stream[(k % Len(stream)) + 1]

\* lines 182-184: pointer += 1, leave the loop at the end of the stream
Advance(m) ==
    IF m.decL.pointer = None THEN Raise(m, "TypeError")
    ELSE LET p == m.decL.pointer + 1
         IN  [m EXCEPT !.decL.pointer = p,
                       !.pc = IF p = Len(m.decL.new) THEN "done" ELSE "exec"]

\* lines 158-181: the effect of the instruction char, before pointer += 1
Execute(m, char, stream) ==
    LET c == m.cells
        cellOk == InRange(c.handler, c.pointer)
    IN  CASE char = "+" ->
               IF cellOk THEN [m EXCEPT !.cells = inc(c)] ELSE Raise(m, "IndexError")
          [] char = "-" ->
               IF cellOk THEN [m EXCEPT !.cells = dec(c)] ELSE Raise(m, "IndexError")
          [] char = "[" ->
               IF ~cellOk THEN Raise(m, "IndexError")
               ELSE IF get_current(c) = 0
                    THEN IF m.decL.pointer \in DOMAIN c.brackets
                         THEN [m EXCEPT !.decL.pointer = c.brackets[m.decL.pointer]]
                         ELSE Raise(m, "KeyError")
                    ELSE m
          [] char = "]" ->
               IF ~cellOk THEN Raise(m, "IndexError")
               ELSE IF get_current(c) # 0
                    THEN IF m.decL.pointer \in DOMAIN reverse_brackets(c)
                         THEN [m EXCEPT !.decL.pointer = reverse_brackets(c)[m.decL.pointer]]
                         ELSE Raise(m, "KeyError")
                    ELSE m
          [] char = "<" -> [m EXCEPT !.cells = move_left(c)]
          [] char = ">" -> [m EXCEPT !.cells = move_right(c)]
          [] char = "." ->
               IF ~cellOk THEN Raise(m, "IndexError")
               ELSE IF ~chr_ok(get_current(c)) THEN Raise(m, "ValueError")
               ELSE [m EXCEPT !.decL.chars = Append(m.decL.chars, get_value(c))]
          [] char = "," ->
               IF cellOk
               THEN [m EXCEPT !.cells = set_value(c, Typed(stream, m.nin)),
                              !.nin = m.nin + 1]
               ELSE Raise([m EXCEPT !.nin = m.nin + 1], "IndexError")
          [] OTHER -> m

\* lines 157-184: one pass of the while loop
DecodeStep(m, stream) ==
    LET char == CurChar(m)
        x == Execute([m EXCEPT !.op = char, !.steps = m.steps + 1], char, stream)
    IN  IF x.pc = "error" THEN x ELSE Advance(x)

Running(m) == m.pc = "exec" /\ m.steps < MaxSteps

\* at most n further passes of the loop, cut off after MaxSteps instructions
\* (n is split in halves to keep the recursion shallow)
RECURSIVE RunFor(_, _, _)
RunFor(m, stream, n) ==
    IF n = 0 \/ ~Running(m) THEN m
    ELSE IF n = 1 THEN DecodeStep(m, stream)
    ELSE LET first == RunFor(m, stream, n \div 2)
         IN  RunFor(first, stream, n - (n \div 2))

\* the whole loop
RunDecode(m, stream) == RunFor(m, stream, MaxSteps)

\* decode(line) as a function: the final state of its run
DecodeFn(line, stream) ==
    LET f == DecodeFilter(DecodeCall(line))
    IN  IF f.pc = "done" THEN f
        ELSE LET s == DecodeScan(f)
             IN  IF s.pc = "error" THEN s ELSE RunDecode(s, stream)

----------------------------------------------------------------------------
(* brainfuck.offset and brainfuck.encode.  e is one run of encode:          *)
(*   [pc, err, encL |-> [line, maxlen, runner, items, ords, new, values,    *)
(*                       run]]                                              *)
(* items is the dict of used buckets as the sequence of its keys in         *)
(* insertion order (every value is True); values is the dict of baselines.  *)

\* offset with its loop started at runner = 0
offset_from0(run, items) ==
    IF run = 0 THEN 0
    ELSE LET used == Range(items)
         IN  Cardinality({runner \in 0..(run - 1) : runner \notin used})

\* lines 127-136: the number of runner in 1 .. run - 1 that are not in items
offset(run, items) ==
    IF run = 0 THEN 0
    ELSE LET used == Range(items)
         IN  Cardinality({runner \in 1..(run - 1) : runner \notin used})

(* brainfuck.offset step by step.  o is one run of it:                      *)
(*   [pc, err, encL |-> [run, items, runner, off]]                          *)

\* the call offset(run, items) at its entry
OffsetCall(run, items) ==
    [pc |-> "offset", err |-> "",
     encL |-> [run |-> run, items |-> items, runner |-> 0, off |-> 0]]

\* lines 128-131
OffsetBegin(o) ==
    IF o.encL.run = 0 THEN [o EXCEPT !.pc = "returned", !.encL.off = 0]
    ELSE [o EXCEPT !.pc = "off_loop", !.encL.off = 0, !.encL.runner = 1]

\* the test of line 133 inverted: the used buckets are the ones counted
OffsetCountsUsed(l) == l.runner \in Range(l.items)

\* line 133
OffsetCounts(l) == l.runner \notin Range(l.items)

\* line 132
OffsetMore(l) == l.runner < l.run

\* lines 132-136: one pass of the loop, or the return when it is over
OffsetPass(o) ==
    LET l == o.encL
    IN  IF OffsetMore(l)
        THEN [o EXCEPT !.encL.off = IF OffsetCounts(l) THEN l.off + 1 ELSE l.off,
                       !.encL.runner = l.runner + 1]
        ELSE [o EXCEPT !.pc = "returned"]

NoEnc == [line |-> <<>>, maxlen |-> 0, runner |-> 0, items |-> <<>>, ords |-> <<>>,
          new |-> <<>>, values |-> <<>>, run |-> 0]

\* the call encode(line, maxlen) at its entry
EncodeCall(line, maxlen) ==
    [pc |-> "encode", err |-> "",
     encL |-> [NoEnc EXCEPT !.line = line, !.maxlen = maxlen]]

\* the clamp testing maxlen < 0: a bucket size of 0 is kept
ClampNegative(maxlen) == IF maxlen < 0 THEN 1 ELSE maxlen

\* lines 189-190
ClampMaxlen(maxlen) == IF maxlen < 1 THEN 1 ELSE maxlen

\* lines 189-196
EncodeBegin(e) ==
    [e EXCEPT !.pc = "enc_scan",
              !.encL.maxlen = FloorDiv(ClampMaxlen(e.encL.maxlen), 1),
              !.encL.runner = 0, !.encL.items = <<>>, !.encL.ords = <<>>,
              !.encL.new = <<>>]

\* items[key] = True: a new key goes to the end, a known key keeps its place
SetItem(items, key) == IF key \in Range(items) THEN items ELSE Append(items, key)

\* lines 197-200
RECURSIVE EncodeScan(_)
EncodeScan(e) ==
    LET l == e.encL
    IN  IF ~(l.runner < Len(l.line)) THEN [e EXCEPT !.pc = "enc_setup"]
        ELSE IF l.maxlen = 0 THEN Raise(e, "ZeroDivisionError")
        ELSE LET o == l.line[l.runner + 1]
             IN  EncodeScan([e EXCEPT !.encL.ords = Append(l.ords, o),
                                      !.encL.items = SetItem(l.items, FloorDiv(o, l.maxlen)),
                                      !.encL.runner = l.runner + 1])

\* line 204: the order in which the setup section visits the used buckets
SetupKeys(items) == items

\* lines 204-208: the setup text of the keys, and the number of cells visited
RECURSIVE SetupCells(_)
SetupCells(keys) ==
    IF keys = <<>> THEN [new |-> <<>>, runner |-> 0]
    ELSE LET key == Head(keys)
             rest == SetupCells(Tail(keys))
         IN  IF key = 0 THEN rest
             ELSE [new |-> <<">">> \o Rep("+", key) \o rest.new,
                   runner |-> rest.runner + 1]

\* the setup loop emitted whatever the bucket size
HasLoopAnySize(l) == l.maxlen <= Max(Range(l.ords))

\* lines 201, 212: a setup loop is emitted
HasLoop(l) == l.maxlen <= Max(Range(l.ords)) /\ l.maxlen > 1

\* lines 201-213
EncodeSetup(e) ==
    LET l == e.encL
    IN  IF l.ords = <<>> THEN Raise(e, "ValueError")
        ELSE LET head == IF HasLoop(l) THEN Rep("+", l.maxlen) \o <<"[">> ELSE <<>>
                 body == SetupCells(SetupKeys(l.items))
                 back == Rep("<", body.runner)
                 tail == IF HasLoop(l) THEN <<"-", "]">> ELSE <<>>
             IN  [e EXCEPT !.pc = "enc_values",
                           !.encL.new = l.new \o head \o body.new \o back \o tail,
                           !.encL.runner = 0]

\* values[key] = val
SetValue(values, key, val) == (key :> val) @@ values

\* line 216: the condition of the loop that fills values
ValuesMore(l) == l.runner < FloorDiv(256, l.maxlen) + 1

\* lines 217-220: one pass of that loop
ValuesStep(l) ==
    LET off == offset(l.runner, l.items)
    IN  [l EXCEPT !.values = IF l.runner > off
                             THEN SetValue(l.values, l.runner - off, l.maxlen * l.runner)
                             ELSE l.values,
                  !.runner = l.runner + 1]

\* lines 216-220: at most n passes of the loop (n is split in halves to keep
\* the recursion shallow)
RECURSIVE ValuesLoop(_, _)
ValuesLoop(l, n) ==
    IF n = 0 \/ ~ValuesMore(l) THEN l
    ELSE IF n = 1 THEN ValuesStep(l)
    ELSE LET first == ValuesLoop(l, n \div 2)
         IN  ValuesLoop(first, n - (n \div 2))

\* lines 214-222
EncodeValues(e) ==
    LET l == [e.encL EXCEPT !.runner = 1, !.values = <<>>]
        filled == ValuesLoop(l, FloorDiv(256, l.maxlen))
    IN  [e EXCEPT !.pc = "enc_chars",
                  !.encL = [filled EXCEPT !.runner = 0, !.run = 0]]

\* the moves with the two directions swapped
MovesReversed(run, num) ==
    IF num > run THEN Rep("<", num - run)
    ELSE IF num < run THEN Rep(">", run - num)
    ELSE <<>>

\* lines 229-232: the moves from cell run to cell num
Moves(run, num) ==
    IF num > run THEN Rep(">", num - run)
    ELSE IF num < run THEN Rep("<", run - num)
    ELSE <<>>

\* lines 234-237: the adjustment of a cell holding val to r
Adjust(val, r) ==
    IF r > val THEN Rep("+", r - val)
    ELSE IF r < val THEN Rep("-", val - r)
    ELSE <<>>

\* lines 223-241: one pass of the last loop, or the return when it is over
EncodeChar(e) ==
    LET l == e.encL
    IN  IF ~(l.runner < Len(l.line)) THEN [e EXCEPT !.pc = "encoded"]
        ELSE LET r == l.line[l.runner + 1]
                 bucket == FloorDiv(r, l.maxlen)
                 num == bucket - offset(bucket, l.items)
             IN  IF num \notin DOMAIN l.values THEN Raise(e, "KeyError")
                 ELSE LET val == l.values[num]
                      IN  [e EXCEPT !.encL.new = l.new \o Moves(l.run, num)
                                                  \o Adjust(val, r) \o <<".">>,
                                    !.encL.run = num,
                                    !.encL.values = SetValue(l.values, num, r),
                                    !.encL.runner = l.runner + 1]

RECURSIVE EncodeChars(_)
EncodeChars(e) == IF e.pc # "enc_chars" THEN e ELSE EncodeChars(EncodeChar(e))

\* encode(line, maxlen) as a function: the final state of its run (a phase
\* is skipped once an exception was raised)
EncodeFn(line, maxlen) ==
    LET a == EncodeBegin(EncodeCall(line, maxlen))
        b == IF a.pc = "enc_scan" THEN EncodeScan(a) ELSE a
        c == IF b.pc = "enc_setup" THEN EncodeSetup(b) ELSE b
        d == IF c.pc = "enc_values" THEN EncodeValues(c) ELSE c
    IN  IF d.pc = "enc_chars" THEN EncodeChars(d) ELSE d

----------------------------------------------------------------------------
(* The state machine *)

\* the run of decode held in the variables
Mach == [pc |-> pc, err |-> err, op |-> op, steps |-> steps, nin |-> nin,
         decL |-> decL, cells |-> cells]

SetMach(m) ==
    /\ pc' = m.pc
    /\ err' = m.err
    /\ op' = m.op
    /\ steps' = m.steps
    /\ nin' = m.nin
    /\ decL' = m.decL
    /\ cells' = m.cells

StartMach(m) ==
    /\ pc = m.pc
    /\ err = m.err
    /\ op = m.op
    /\ steps = m.steps
    /\ nin = m.nin
    /\ decL = m.decL
    /\ cells = m.cells

\* longer programs with loops, nested loops and other characters in between
Samples ==
    { <<"+", "+", Junk, "[", Junk, ">", "+", "+", "+", "<", Junk, "-", "]", Junk, ">", ".">>,
      <<Junk, "+", "[", Junk, "[", "-", "]", Junk, "]", ".">>,
      <<"[", Junk, "[", "]", Junk, "]">>,
      <<"[", "[", "]", "[", "]", "]", "+", ".">>,
      <<"+", "[", "-", Junk, "[", "+", "]", ">", "]", "<", ".">> }

\* the programs of SpecDecode: every text of at most MaxLine characters over
\* the eight instructions and one other character
RawLines == SeqsUpTo(allowed \cup {Junk}, MaxLine) \cup Samples

Streams(line) ==
    IF "," \in Range(line) THEN [1..MaxInp -> InputCodes] ELSE {Rep(33, MaxInp)}

InitDecodeOf(lines) ==
    /\ args \in {[line |-> l, maxlen |-> 0] : l \in lines}
    /\ inp \in Streams(args.line)
    /\ encL = NoEnc
    /\ StartMach(DecodeCall(args.line))

(* decode, one action per phase and per instruction *)

DecFilter ==
    /\ pc = "decode"
    /\ SetMach(DecodeFilter(Mach))
    /\ UNCHANGED <<args, encL, inp>>

DecScan ==
    /\ pc = "scan"
    /\ SetMach(DecodeScan(Mach))
    /\ UNCHANGED <<args, encL, inp>>

At(char) ==
    /\ Running(Mach)
    /\ CurChar(Mach) = char

\* one pass of the while loop of lines 156-184
DoStep ==
    /\ SetMach(DecodeStep(Mach, inp))
    /\ UNCHANGED <<args, encL, inp>>

ExecInc ==
    /\ At("+")
    /\ DoStep

ExecDec ==
    /\ At("-")
    /\ DoStep

ExecOpen ==
    /\ At("[")
    /\ DoStep

ExecClose ==
    /\ At("]")
    /\ DoStep

ExecLeft ==
    /\ At("<")
    /\ DoStep

ExecRight ==
    /\ At(">")
    /\ DoStep

ExecDot ==
    /\ At(".")
    /\ DoStep

ExecComma ==
    /\ At(",")
    /\ DoStep

InitDecode == InitDecodeOf(RawLines)

NextDecode ==
    \/ DecFilter
    \/ DecScan
    \/ ExecInc
    \/ ExecDec
    \/ ExecOpen
    \/ ExecClose
    \/ ExecLeft
    \/ ExecRight
    \/ ExecDot
    \/ ExecComma

SpecDecode == InitDecode /\ [][NextDecode]_vars

(* encode, one action per phase, and the call of decode on its result *)

EncMach == [pc |-> pc, err |-> err, encL |-> encL]

SetEnc(e) ==
    /\ pc' = e.pc
    /\ err' = e.err
    /\ encL' = e.encL
    /\ UNCHANGED <<op, steps, args, decL, cells, inp, nin>>

EncBegin ==
    /\ pc = "encode"
    /\ SetEnc(EncodeBegin(EncMach))

EncScan ==
    /\ pc = "enc_scan"
    /\ SetEnc(EncodeScan(EncMach))

EncSetup ==
    /\ pc = "enc_setup"
    /\ SetEnc(EncodeSetup(EncMach))

EncValues ==
    /\ pc = "enc_values"
    /\ SetEnc(EncodeValues(EncMach))

EncChar ==
    /\ pc = "enc_chars"
    /\ SetEnc(EncodeChar(EncMach))

\* decode(encode(line, maxlen)): the program returned is handed to decode
CallDecode ==
    /\ pc = "encoded"
    /\ SetMach(DecodeCall(encL.new))
    /\ UNCHANGED <<args, encL, inp>>

Texts == SeqsUpTo(TextCodes, MaxText)

InitEncodeOf(calls) ==
    /\ args \in calls
    /\ inp = Rep(33, MaxInp)
    /\ pc = "encode"
    /\ err = ""
    /\ encL = EncodeCall(args.line, args.maxlen).encL
    /\ op = ""
    /\ steps = 0
    /\ nin = 0
    /\ decL = NoDec
    /\ cells = NewBFHandler

Init == InitEncodeOf({[line |-> t, maxlen |-> b] : t \in Texts, b \in BucketSizes})

Next ==
    \/ EncBegin
    \/ EncScan
    \/ EncSetup
    \/ EncValues
    \/ EncChar
    \/ CallDecode
    \/ DecFilter
    \/ DecScan
    \/ ExecInc
    \/ ExecDec
    \/ ExecOpen
    \/ ExecClose
    \/ ExecLeft
    \/ ExecRight
    \/ ExecDot

\* decode(encode(line, maxlen)) for the texts and bucket sizes of Init
Spec == Init /\ [][Next]_vars

(* decode(encode(line, maxlen)) for the texts over "A" and "Z" and three    *)
(* bucket sizes, with the while loop of decode run to its end: when a pass  *)
(* of the loop can be taken it is taken (the code is sequential, nothing    *)
(* holds it back)                                                           *)

LiveCodes == {65, 90}

LiveBuckets == {1, 10, 65}

InitLive ==
    InitEncodeOf({[line |-> t, maxlen |-> b] :
                      t \in SeqsUpTo(LiveCodes, MaxText), b \in LiveBuckets})

\* a pass of the while loop of lines 156-184, whatever the instruction
LoopPass ==
    /\ Running(Mach)
    /\ DoStep

SpecLive == InitLive /\ [][Next]_vars /\ WF_vars(LoopPass)

(* decode(encode(line, maxlen)) for the one-character texts with a code in  *)
(* 1 .. MaxCode, 65 ("A") or 255, and every bucket size in 1 .. MaxCode     *)

SingleCodes == (1..MaxCode) \cup {65, 255}

InitSingle ==
    InitEncodeOf({[line |-> <<c>>, maxlen |-> b] : c \in SingleCodes, b \in 1..MaxCode})

SpecSingle == InitSingle /\ [][Next]_vars

(* decode of the counted loops +^n [> +^m <-]> +^k . *)

CountedLoop(n, m, k) ==
    Rep("+", n) \o <<"[", ">">> \o Rep("+", m) \o <<"<", "-", "]", ">">>
        \o Rep("+", k) \o <<".">>

InitLoop ==
    InitDecodeOf({CountedLoop(n, m, k) : n \in 0..MaxN, m \in 0..MaxM, k \in 0..MaxK})

NextLoop ==
    \/ DecFilter
    \/ DecScan
    \/ ExecInc
    \/ ExecDec
    \/ ExecOpen
    \/ ExecClose
    \/ ExecLeft
    \/ ExecRight
    \/ ExecDot

SpecLoop == InitLoop /\ [][NextLoop]_vars

(* decode of the programs of at most MaxOps instructions over + - < >: the *)
(* tape operations in every order, with the program as their record        *)

TapeOps == {"+", "-", "<", ">"}

InitGrow == InitDecodeOf(SeqsUpTo(TapeOps, MaxOps))

NextGrow ==
    \/ DecFilter
    \/ DecScan
    \/ ExecInc
    \/ ExecDec
    \/ ExecLeft
    \/ ExecRight

SpecGrow == InitGrow /\ [][NextGrow]_vars

(* the tape machine alone: its operations called in any order *)

TapeCall(name, c) ==
    /\ pc = "tape"
    /\ steps < MaxOps
    /\ op' = name
    /\ steps' = steps + 1
    /\ cells' = c
    /\ UNCHANGED <<pc, err, args, encL, decL, inp, nin>>

\* a call that raises IndexError: handler[pointer] is out of range
TapeRaise(name) ==
    /\ pc = "tape"
    /\ steps < MaxOps
    /\ op' = name
    /\ steps' = steps + 1
    /\ pc' = "error"
    /\ err' = "IndexError"
    /\ UNCHANGED <<cells, args, encL, decL, inp, nin>>

TapeInc ==
    IF InRange(cells.handler, cells.pointer) THEN TapeCall("inc", inc(cells))
    ELSE TapeRaise("inc")

TapeDec ==
    IF InRange(cells.handler, cells.pointer) THEN TapeCall("dec", dec(cells))
    ELSE TapeRaise("dec")

TapeRight ==
    /\ TRUE
    /\ TapeCall("move_right", move_right(cells))

TapeLeft ==
    /\ TRUE
    /\ TapeCall("move_left", move_left(cells))

InitTape ==
    /\ args = [line |-> <<>>, maxlen |-> 0]
    /\ inp = Rep(33, MaxInp)
    /\ pc = "tape"
    /\ err = ""
    /\ op = ""
    /\ steps = 0
    /\ nin = 0
    /\ encL = NoEnc
    /\ decL = NoDec
    /\ cells = NewBFHandler

NextTape ==
    \/ TapeInc
    \/ TapeDec
    \/ TapeRight
    \/ TapeLeft

SpecTape == InitTape /\ [][NextTape]_vars

(* offset alone: offset(run, items) for every set of used buckets within    *)
(* 0 .. MaxBucket and every run in 0 .. MaxBucket + 1                       *)

OffBegin ==
    /\ pc = "offset"
    /\ SetEnc(OffsetBegin(EncMach))

OffPass ==
    /\ pc = "off_loop"
    /\ OffsetMore(encL)
    /\ SetEnc(OffsetPass(EncMach))

OffReturn ==
    /\ pc = "off_loop"
    /\ ~OffsetMore(encL)
    /\ SetEnc(OffsetPass(EncMach))

InitOffset ==
    /\ args \in {[run |-> k, items |-> KeysOf(U)] :
                     k \in 0..(MaxBucket + 1), U \in SUBSET (0..MaxBucket)}
    /\ inp = Rep(33, MaxInp)
    /\ pc = "offset"
    /\ err = ""
    /\ encL = OffsetCall(args.run, args.items).encL
    /\ op = ""
    /\ steps = 0
    /\ nin = 0
    /\ decL = NoDec
    /\ cells = NewBFHandler

NextOffset ==
    \/ OffBegin
    \/ OffPass
    \/ OffReturn

SpecOffset == InitOffset /\ [][NextOffset]_vars

----------------------------------------------------------------------------
(* Vocabulary of the properties *)

Instructions == {"+", "-", ".", ",", "[", "]", "<", ">"}

IsInstruction(char) == char \in Instructions

\* a raw text with every non-instruction character removed
Stripped(line) == SelectSeq(line, IsInstruction)

Count(s, x) == Cardinality({i \in 1..Len(s) : s[i] = x})

\* the number of [ minus the number of ] among the first i characters
Depth(s, i) == Count(SubSeq(s, 1, i), "[") - Count(SubSeq(s, 1, i), "]")

Balanced(s) == Depth(s, Len(s)) = 0 /\ \A i \in 1..Len(s) : Depth(s, i) >= 0

Printable == 32..126

\* the run of decode is over: returned, raised, or cut off
DecodeOver == pc \in {"done", "error"} \/ (pc = "exec" /\ steps >= MaxSteps)

\* what a caller of decode sees of a run
Outcome(m) == [pc |-> m.pc, err |-> m.err,
               chars |-> IF m.pc = "done" THEN m.decL.chars ELSE <<>>]

\* encode has returned or raised (decode has not been called yet)
EncodeOver == pc = "encoded" \/ (pc = "error" /\ decL = NoDec)

EncOutcome(e) == [pc |-> e.pc, err |-> e.err,
                  new |-> IF e.pc = "encoded" THEN e.encL.new ELSE <<>>]

----------------------------------------------------------------------------
(* C1: Round trip.  For every text s of printable ASCII characters and      *)
(* every bucket size in {1, 5, 10, 50, 255}, decode(encode(s, b)) returns   *)
(* exactly s, character for character, whatever the order of the characters *)
(* (stated for the calls that return: a call that raises returns no s).     *)
C1_RoundTrip ==
    (/\ Range(args.line) \subseteq Printable
     /\ args.maxlen \in PrintableBuckets
     /\ pc = "done")
        => decL.chars = args.line

(* C2: Empty input.  encode("") returns the empty program without an error, *)
(* and decode("") returns the empty string.                                 *)
C2_EmptyInput ==
    args.line = <<>>
        => /\ pc # "error"
           /\ pc = "encoded" => encL.new = <<>>
           /\ pc = "done" => decL.chars = <<>>

(* C3: Bracket rejection.  decode of a program whose filtered instruction   *)
(* stream has unbalanced brackets never returns normally.                   *)
C3_BracketRejection == ~Balanced(Stripped(args.line)) => pc # "done"

(* C4: Tape underflow.  The cursor is never negative in a state that is not *)
(* an error state: a `<` executed at cell 0 is fatal.                       *)
C4_TapeUnderflow == pc # "error" => cells.pointer >= 0

(* C5: Cell wraparound.  inc on a cell holding 255 leaves 0, dec on a cell  *)
(* holding 0 leaves 255, and after any sequence of inc, dec, move_right     *)
(* (and move_left) calls every cell of the tape holds a value in 0 .. 255.  *)
Current(c) == c.handler[Idx(c.handler, c.pointer)]

CellsInRange == \A i \in 1..Len(cells.handler) : cells.handler[i] \in 0..255

IncWraps ==
    (op' = "inc" /\ pc' = "tape" /\ Current(cells) = 255) => Current(cells') = 0

DecWraps ==
    (op' = "dec" /\ pc' = "tape" /\ Current(cells) = 0) => Current(cells') = 255

C5_Wraparound == []CellsInRange /\ [][IncWraps]_vars /\ [][DecWraps]_vars

\* an inc has just wrapped a cell to 0 while another cell, wrapped by a dec,
\* holds 255
C5_Witness ==
    /\ pc = "tape"
    /\ op = "inc"
    /\ steps >= 2
    /\ Current(cells) = 0
    /\ 255 \in Range(cells.handler)

(* C6: Filtering.  decode of a text has the same outcome (output or error)  *)
(* as decode of the text with its non-instruction characters removed, and   *)
(* the bracket positions recorded are positions of the filtered stream.     *)
C6_Filtering ==
    /\ DecodeOver => Outcome(Mach) = Outcome(DecodeFn(Stripped(args.line), inp))
    /\ pc \in {"exec", "done"} =>
           \A k \in DOMAIN cells.brackets :
               /\ k + 1 \in 1..Len(Stripped(args.line))
               /\ Stripped(args.line)[k + 1] = "["

\* a run that returned some output, of a text that starts with a
\* non-instruction character and has a bracket pair after it
C6_Witness ==
    /\ pc = "done"
    /\ args.line # <<>>
    /\ args.line[1] = Junk
    /\ \E k \in DOMAIN cells.brackets : cells.brackets[k] # None
    /\ decL.chars # <<>>

(* C7: Counted loop.  decode of +^n [> +^m <-]> +^k . returns the single    *)
(* character with code (n * m + k) mod 256; decode of                       *)
(* "++++++++[>++++<-]>+." returns "!" (code 33).                            *)
Example33 ==
    <<"+", "+", "+", "+", "+", "+", "+", "+", "[", ">", "+", "+", "+", "+",
      "<", "-", "]", ">", "+", ".">>

C7_CountedLoop ==
    /\ pc # "error"
    /\ pc = "exec" => steps < MaxSteps
    /\ pc = "done" =>
           /\ \A n \in 0..MaxN, m \in 0..MaxM, k \in 0..MaxK :
                  args.line = CountedLoop(n, m, k)
                      => decL.chars = <<(n * m + k) % 256>>
           /\ args.line = Example33 => decL.chars = <<33>>

\* the run of the example has returned "!"
C7_Witness == pc = "done" /\ args.line = Example33 /\ decL.chars = <<33>>

(* C8: Single-character synthesis.  For a one-character text with code c    *)
(* and a bucket size b with 1 < b <= c, encode returns exactly              *)
(* +^b [> +^(c div b) <-]> +^(c mod b) . and decode of it returns the text. *)
SingleChar(b, c) ==
    Rep("+", b) \o <<"[", ">">> \o Rep("+", c \div b) \o <<"<", "-", "]", ">">>
        \o Rep("+", c % b) \o <<".">>

ProgramA ==
    <<"+", "+", "+", "+", "+", "+", "+", "+", "+", "+", "[", ">",
      "+", "+", "+", "+", "+", "+", "<", "-", "]", ">",
      "+", "+", "+", "+", "+", ".">>

C8_SingleChar ==
    (Len(args.line) = 1 /\ 1 < args.maxlen /\ args.maxlen <= args.line[1])
        => /\ pc # "error"
           /\ pc = "exec" => steps < MaxSteps
           /\ pc = "encoded" => encL.new = SingleChar(args.maxlen, args.line[1])
           /\ pc = "done" => decL.chars = args.line

\* encode("A", 10) has returned that program (bucket 6, five +) and decode of it "A"
C8_Witness ==
    /\ pc = "done"
    /\ args = [line |-> <<65>>, maxlen |-> 10]
    /\ encL.new = ProgramA
    /\ SingleChar(10, 65) = ProgramA
    /\ decL.chars = <<65>>

(* C9: Bucket-size clamp.  For a bucket size b < 1, encode(text, b) has the *)
(* same outcome as encode(text, 1), and no division by zero occurs.         *)
C9_Clamp ==
    (EncodeOver /\ args.maxlen < 1)
        => /\ EncOutcome(EncMach) = EncOutcome(EncodeFn(args.line, 1))
           /\ err # "ZeroDivisionError"

\* encode of a non-empty text with bucket size 0 has returned a program
C9_Witness ==
    /\ pc = "encoded"
    /\ args.maxlen = 0
    /\ args.line # <<>>
    /\ encL.new # <<>>

(* C10: Synthesized alphabet.  A program returned by encode contains no `,` *)
(* and either no bracket or exactly one [ followed by exactly one ], both   *)
(* before the first `.`; the pair is there exactly when bucket_size > 1 and *)
(* the largest character code is >= bucket_size.                            *)
First(s, x) == CHOOSE i \in 1..Len(s) : s[i] = x /\ \A j \in 1..(i - 1) : s[j] # x

OnePair(s) ==
    /\ Count(s, "[") = 1
    /\ Count(s, "]") = 1
    /\ First(s, "[") < First(s, "]")
    /\ "." \in Range(s) => First(s, "]") < First(s, ".")

C10_Alphabet ==
    pc = "encoded" =>
        /\ "," \notin Range(encL.new)
        /\ IF args.maxlen > 1 /\ Max(Range(args.line)) >= args.maxlen
           THEN OnePair(encL.new)
           ELSE "[" \notin Range(encL.new) /\ "]" \notin Range(encL.new)

\* a program with the setup loop and two outputs has been returned
C10_Witness ==
    /\ pc = "encoded"
    /\ OnePair(encL.new)
    /\ Count(encL.new, ".") = 2

(* C11: Bracket pairing.  After the pre-scan of a balanced program, nested  *)
(* ones included, every [ position is mapped to the position of the ] that  *)
(* structurally matches it (the ] closes the most recently opened [ that is *)
(* still unpaired), and the map is a bijection between the [ and the ]      *)
(* positions.                                                               *)
Positions(s, x) == {i \in 1..Len(s) : s[i] = x}

\* the ] that structurally matches the [ at i: the first place after i where
\* the nesting depth is back to what it was before i
MatchClose(s, i) ==
    CHOOSE j \in (i + 1)..Len(s) :
        /\ Depth(s, j) = Depth(s, i - 1)
        /\ \A h \in (i + 1)..(j - 1) : Depth(s, h) # Depth(s, i - 1)

\* the [ that structurally matches the ] at j
MatchOpen(s, j) == CHOOSE i \in Positions(s, "[") : i < j /\ MatchClose(s, i) = j

C11_BracketPairing ==
    (pc \in {"exec", "done"} /\ decL.new # <<>> /\ Balanced(decL.new))
        => LET s == decL.new
           IN  /\ DOMAIN cells.brackets = {i - 1 : i \in Positions(s, "[")}
               /\ \A i \in Positions(s, "[") :
                      cells.brackets[i - 1] = MatchClose(s, i) - 1
               /\ DOMAIN reverse_brackets(cells) = {j - 1 : j \in Positions(s, "]")}

(* C12: Jump semantics.  In a balanced program, a [ executed on a zero cell *)
(* is followed by the instruction right after its matching ], a ] executed  *)
(* on a nonzero cell by the instruction right after its matching [, every   *)
(* other instruction by the one at position + 1; the instruction pointer    *)
(* stays an integer in 0 .. length of the stream.                           *)
ExecStep == pc = "exec" /\ steps' = steps + 1

NextPosition(s, p, cur) ==
    IF s[p + 1] = "[" /\ cur = 0 THEN MatchClose(s, p + 1)
    ELSE IF s[p + 1] = "]" /\ cur # 0 THEN MatchOpen(s, p + 1)
    ELSE p + 1

JumpsAsPaired ==
    (/\ ExecStep
     /\ Balanced(decL.new)
     /\ InRange(cells.handler, cells.pointer))
        => /\ pc' # "error"
           /\ decL'.pointer = NextPosition(decL.new, decL.pointer, get_current(cells))
           /\ decL'.pointer \in 0..Len(decL.new)

C12_JumpSemantics == [][JumpsAsPaired]_vars

(* C13: Setup order.  The setup section of a program returned by encode     *)
(* visits the used nonzero buckets in increasing bucket order, whatever the *)
(* order of their first occurrence in the text; after interpreting the      *)
(* setup section the cell at compacted index i holds bucket_size times the  *)
(* i-th smallest used nonzero bucket, the value the baseline table records  *)
(* for index i.                                                             *)
UsedNonzero(l) == Range(l.items) \ {0}

\* the i-th smallest member of S (i from 1)
Ith(S, i) == CHOOSE x \in S : Cardinality({y \in S : y < x}) = i - 1

Increasing(q) == \A i \in 1..Len(q), j \in 1..Len(q) : i < j => q[i] < q[j]

IsNonzero(key) == key # 0

\* the setup section lines 201-213 emit for the locals l
SetupOf(l) ==
    IF l.ords = <<>> THEN <<>>
    ELSE EncodeSetup([pc |-> "enc_setup", err |-> "",
                      encL |-> [l EXCEPT !.new = <<>>]]).encL.new

\* decode has just left the setup section of the program encode returned
SetupDone ==
    /\ pc \in {"exec", "done"}
    /\ decL.new = encL.new
    /\ SetupOf(encL) # <<>>
    /\ decL.pointer = Len(SetupOf(encL))

C13_SetupOrder ==
    LET U == UsedNonzero(encL)
        n == Cardinality(U)
    IN  /\ pc = "enc_values" => Increasing(SelectSeq(SetupKeys(encL.items), IsNonzero))
        /\ (pc = "enc_chars" /\ encL.runner = 0) =>
               \A i \in 1..n : /\ i \in DOMAIN encL.values
                               /\ encL.values[i] = encL.maxlen * Ith(U, i)
        /\ SetupDone =>
               \A i \in 1..n : /\ i + 1 <= Len(cells.handler)
                               /\ cells.handler[i + 1] = encL.maxlen * Ith(U, i)

(* C14: Bucket 0 is free.  For a text with a character whose code is below  *)
(* the bucket size, encode succeeds: the baseline table holds 0 for bucket  *)
(* 0 from the start, no setup instruction is emitted for bucket 0, and      *)
(* encode("\t", 10) returns nine + followed by a dot.                       *)
HasBucketZero ==
    \E i \in 1..Len(args.line) : args.line[i] < ClampMaxlen(args.maxlen)

C14_BucketZero ==
    HasBucketZero
        => /\ ~(pc = "error" /\ decL = NoDec)
           /\ (pc = "enc_chars" /\ encL.runner = 0) =>
                  0 \in DOMAIN encL.values /\ encL.values[0] = 0
           /\ pc = "enc_values" =>
                  Count(encL.new, ">") = Cardinality(UsedNonzero(encL))
           /\ (pc = "encoded" /\ args = [line |-> <<9>>, maxlen |-> 10]) =>
                  encL.new = Rep("+", 9) \o <<".">>

(* C15: Compaction.  For every set U of used buckets and every nonzero k in *)
(* U, k - offset(k, U) is the 1-based rank of k among the nonzero members   *)
(* of U in increasing order; the compacted indices of the nonzero members   *)
(* are exactly 1 .. n, without gaps or repeats; offset(0, U) = 0.           *)
Rank(k, S) == Cardinality({y \in S : y <= k})

C15_Compaction ==
    pc = "returned" =>
        LET nz == Range(args.items) \ {0}
        IN  /\ encL.off = offset(args.run, args.items)
            /\ args.run = 0 => encL.off = 0
            /\ args.run \in nz => args.run - encL.off = Rank(args.run, nz)
            /\ {j - offset(j, args.items) : j \in nz} = 1..Cardinality(nz)

\* offset(5, {0, 2, 4, 5}) has returned 2: bucket 5 is the third nonzero one
C15_Witness ==
    /\ pc = "returned"
    /\ args = [run |-> 5, items |-> <<0, 2, 4, 5>>]
    /\ encL.off = 2

(* C16: Synthesized programs never underflow.  While a program returned by  *)
(* encode is interpreted, every < is executed with the cursor above 0, the  *)
(* cursor stays within 0 .. tape length - 1, and the cursor is at cell 0    *)
(* when the setup section ends.                                             *)
CursorOnTape == cells.pointer \in 0..(Len(cells.handler) - 1)

LeftAboveZero == (ExecStep /\ CurChar(Mach) = "<") => cells.pointer > 0

C16_NoUnderflow ==
    /\ []CursorOnTape
    /\ [][LeftAboveZero]_vars
    /\ [](SetupDone => cells.pointer = 0)

\* after a first output at cell 2 of three, a < has moved the cursor to cell 1
C16_Witness ==
    /\ pc = "exec"
    /\ op = "<"
    /\ decL.chars # <<>>
    /\ Len(cells.handler) = 3
    /\ cells.pointer = 1

(* C17: Synthesized programs terminate.  Interpreting a program returned by *)
(* encode reaches the end of the stream; the body of the setup loop, when   *)
(* there is one, is executed exactly bucket_size times, cell 0 counting     *)
(* down from bucket_size to 0 without wrapping, and every instruction after *)
(* the ] is executed exactly once.                                          *)

\* the number of instructions executed when the setup section of the locals
\* l is left: with a loop, bucket_size + and the [ once, then bucket_size
\* passes over the rest of the section
SetupSteps(l) ==
    LET n == Len(SetupOf(l))
    IN  IF HasLoop(l) THEN l.maxlen + 1 + l.maxlen * (n - l.maxlen - 1) ELSE n

Decoding == decL # NoDec

NoErrorNoCutOff ==
    Decoding => /\ pc # "error"
                /\ pc = "exec" => steps < MaxSteps

OncePastSetup ==
    (pc \in {"exec", "done"} /\ decL.pointer >= Len(SetupOf(encL)))
        => steps = SetupSteps(encL) + (decL.pointer - Len(SetupOf(encL)))

CountsDown ==
    (ExecStep /\ CurChar(Mach) = "-" /\ decL.pointer < Len(SetupOf(encL)))
        => /\ cells.pointer = 0
           /\ get_current(cells) \in 1..encL.maxlen
           /\ get_current(cells') = get_current(cells) - 1

C17_Terminates ==
    /\ (pc = "exec") ~> (pc = "done")
    /\ []NoErrorNoCutOff
    /\ []OncePastSetup
    /\ [][CountsDown]_vars

\* decode of encode("ZA", 10) has returned after 231 instructions: 11 before
\* the loop body, 10 passes of 21, 10 after the loop
C17_Witness ==
    /\ pc = "done"
    /\ args = [line |-> <<90, 65>>, maxlen |-> 10]
    /\ HasLoop(encL)
    /\ steps = 231

(* C18: Tape growth.  The tape starts as one cell holding 0; move_right     *)
(* appends exactly one zero cell when, and only when, the cursor after the  *)
(* move equals the old tape length; no operation removes a cell; after any  *)
(* sequence of operations that never moves left of cell 0, the tape length  *)
(* is 1 + the largest cursor position reached and the cursor is below it.   *)

\* the cursor after the first i operations of s: the > minus the <
Net(s, i) == Count(SubSeq(s, 1, i), ">") - Count(SubSeq(s, 1, i), "<")

NeverLeftOfZero(s, p) == \A i \in 0..p : Net(s, i) >= 0

LargestReached(s, p) == Max({Net(s, i) : i \in 0..p})

TapeStarts == pc = "scan" => cells.handler = <<0>> /\ cells.pointer = 0

GrowsByOne ==
    ExecStep =>
        IF CurChar(Mach) = ">" /\ cells.pointer + 1 = Len(cells.handler)
        THEN cells'.handler = Append(cells.handler, 0)
        ELSE Len(cells'.handler) = Len(cells.handler)

\* the operations called so far are the first decL.pointer instructions
TapeLength ==
    (pc \in {"exec", "done"} /\ NeverLeftOfZero(decL.new, decL.pointer))
        => /\ Len(cells.handler) = 1 + LargestReached(decL.new, decL.pointer)
           /\ cells.pointer = Net(decL.new, decL.pointer)
           /\ cells.pointer < Len(cells.handler)

C18_TapeGrowth ==
    /\ []TapeStarts
    /\ [][GrowsByOne]_vars
    /\ []TapeLength

\* after > > + < < > the tape has three cells and the cursor is at cell 1
C18_Witness ==
    /\ pc = "done"
    /\ decL.new = <<">", ">", "+", "<", "<", ">">>
    /\ Len(cells.handler) = 3
    /\ cells.pointer = 1

(* C19: Frame conditions of one interpreter step.  + and - change only the  *)
(* cell under the cursor; < and > change only the cursor (> may append one  *)
(* zero cell) and no existing cell; a dot appends exactly one character to  *)
(* the output and leaves tape and cursor alone; [ and ] leave tape, cursor  *)
(* and output alone.  The output only grows: at every step the old output   *)
(* is a prefix of the new one.                                              *)
IsPrefix(s, t) == Len(s) <= Len(t) /\ SubSeq(t, 1, Len(s)) = s

\* the cells of h other than the one under the cursor are the same in h2
OthersKept(c, h2) ==
    /\ Len(h2) = Len(c.handler)
    /\ \A j \in 1..Len(c.handler) :
           \/ InRange(c.handler, c.pointer) /\ j = Idx(c.handler, c.pointer)
           \/ h2[j] = c.handler[j]

FrameIncDec ==
    (ExecStep /\ CurChar(Mach) \in {"+", "-"})
        => /\ cells'.pointer = cells.pointer
           /\ cells'.brackets = cells.brackets
           /\ OthersKept(cells, cells'.handler)
           /\ decL'.chars = decL.chars

FrameMove ==
    (ExecStep /\ CurChar(Mach) \in {"<", ">"})
        => /\ \/ cells'.handler = cells.handler
              \/ CurChar(Mach) = ">" /\ cells'.handler = Append(cells.handler, 0)
           /\ cells'.brackets = cells.brackets
           /\ decL'.chars = decL.chars

FrameDot ==
    (ExecStep /\ CurChar(Mach) = ".")
        => /\ cells' = cells
           /\ decL'.chars = IF pc' = "error" THEN decL.chars
                            ELSE Append(decL.chars, get_current(cells))

FrameBracket ==
    (ExecStep /\ CurChar(Mach) \in {"[", "]"})
        => /\ cells' = cells
           /\ decL'.chars = decL.chars

AppendOnly == IsPrefix(decL.chars, decL'.chars)

C19_Frames ==
    /\ [][FrameIncDec]_vars
    /\ [][FrameMove]_vars
    /\ [][FrameDot]_vars
    /\ [][FrameBracket]_vars
    /\ [][AppendOnly]_vars

\* the loop of ++[>+++<-]>. has run twice and the dot has output cell 1
C19_Witness ==
    /\ pc = "done"
    /\ op = "."
    /\ cells.handler = <<0, 6>>
    /\ cells.pointer = 1
    /\ decL.chars = <<6>>

====
